---- MODULE Spec2Model ----
(***************************************************************************)
(* A model of pix/factory.py: the process-wide class registry              *)
(* (Factory._registered, register, build) and the tree walker              *)
(* (iter_contents, iter_children, objectfy).                                *)
(*                                                                         *)
(* Python values are records tagged by the field t.  A list object has an  *)
(* identity (its index in the heap `lists`), because the decorator of      *)
(* register mutates the list it read in place.  A node of the walked data  *)
(* has an identity too: its path from the root of `data`.                  *)
(***************************************************************************)
EXTENDS Integers, Sequences, FiniteSets, TLC

VARIABLES
    registered,  \* Factory._registered: name -> identity of its list of bases
    lists,       \* the heap of list objects: identity -> contents
    regLog,      \* history: the <<name, klass>> of every registration, in call order
    built,       \* the last build call: its argument, its outcome, and when it ran
    session,     \* Factory.session of the walker
    data,        \* the raw data handed to the walker
    result,      \* the outcome of the walker's last call
    gens,        \* the live iter_contents generators: how many values each has yielded
    pc,          \* concurrent registration: each thread's position in _deco
    tname,       \* concurrent registration: the name each thread registers under
    bases,       \* concurrent registration: _deco's local `bases` (a list identity)
    sawWrite     \* history: had another thread written back when this one read?

vars == <<registered, lists, regLog, built, session, data, result, gens,
          pc, tname, bases, sawWrite>>

regVars  == <<registered, lists, regLog, built>>
walkVars == <<session, data, result, gens>>
concVars == <<pc, tname, bases, sawWrite>>

-----------------------------------------------------------------------------
(* Bounds *)

MaxRegs == 3      \* registrations in one serial run
MaxDepth == 2     \* containers wrapped around a leaf of the walked data

-----------------------------------------------------------------------------
(* Python values *)

PyStr(s)    == [t |-> "str", v |-> s]
PyInt(n)    == [t |-> "int", n |-> n]
PyNone      == [t |-> "none"]
PyDict(kv)  == [t |-> "dict", items |-> kv]     \* entries <<key, value>> in iteration order
PyList(e)   == [t |-> "list", elts |-> e]
PyTuple(e)  == [t |-> "tuple", elts |-> e]
PySet(e)    == [t |-> "set", elts |-> e]        \* distinct members, in iteration order

IsDict(v) == v.t = "dict"
IsSeq(v)  == v.t \in {"set", "list", "tuple"}

\* dict.get(key) with the default None
DictGet(d, key) ==
    LET hits == {i \in 1..Len(d.items) : d.items[i][1] = key}
    IN  IF hits = {} THEN PyNone ELSE d.items[CHOOSE i \in hits : TRUE][2]

\* Python's truth test, as `if name:` applies it
Truthy(v) ==
    CASE v.t = "str"  -> v.v # ""
      [] v.t = "int"  -> v.n # 0
      [] v.t = "none" -> FALSE
      [] v.t = "dict" -> Len(v.items) > 0
      [] OTHER        -> Len(v.elts) > 0

RECURSIVE Repr(_)
RECURSIVE JoinRepr(_, _)
RECURSIVE JoinItems(_, _)
JoinRepr(e, i) ==
    IF i > Len(e) THEN ""
    ELSE Repr(e[i]) \o (IF i < Len(e) THEN ", " ELSE "") \o JoinRepr(e, i + 1)
JoinItems(kv, i) ==
    IF i > Len(kv) THEN ""
    ELSE "'" \o kv[i][1] \o "': " \o Repr(kv[i][2])
         \o (IF i < Len(kv) THEN ", " ELSE "") \o JoinItems(kv, i + 1)
\* repr(v)
Repr(v) ==
    CASE v.t = "str"   -> "'" \o v.v \o "'"
      [] v.t = "int"   -> ToString(v.n)
      [] v.t = "none"  -> "None"
      [] v.t = "dict"  -> "{" \o JoinItems(v.items, 1) \o "}"
      [] v.t = "list"  -> "[" \o JoinRepr(v.elts, 1) \o "]"
      [] v.t = "tuple" -> "(" \o JoinRepr(v.elts, 1)
                              \o (IF Len(v.elts) = 1 THEN "," ELSE "") \o ")"
      [] OTHER         -> IF Len(v.elts) = 0 THEN "set()"
                          ELSE "{" \o JoinRepr(v.elts, 1) \o "}"

\* str(name): a string is itself, anything else is its repr
StrOf(v) == IF v.t = "str" THEN v.v ELSE Repr(v)

-----------------------------------------------------------------------------
(* Classes handed to register, and type() *)

DefaultBase == "PIXObject"
Klasses     == {"A", "B", "C"}
\* class B(A): the one inheritance relation among the registered classes
SubclassOf  == {<<"B", "A">>}

Raise(exc) == [t |-> "raise", exc |-> exc]
IsRaise(r) == r.t = "raise"

HasDuplicate(bs) == \E i, j \in 1..Len(bs) : i < j /\ bs[i] = bs[j]
\* a base listed before one of its own subclasses has no linearization
MroConflict(bs)  == \E i, j \in 1..Len(bs) : i < j /\ <<bs[j], bs[i]>> \in SubclassOf

\* type(name, tuple(bases), {}): TypeError on a duplicate base class or an
\* inconsistent method resolution order, a new class otherwise
TypeNew(name, bs) ==
    IF HasDuplicate(bs) \/ MroConflict(bs)
    THEN Raise("TypeError")
    ELSE [t |-> "type", name |-> name, bases |-> bs]

-----------------------------------------------------------------------------
(* The registry *)

\* bases = cls._registered.get(name, []): the list stored under name, or a
\* fresh empty list
DecoReadCopy(reg, heap, name) ==
    [id |-> Len(heap) + 1,
     heap |-> Append(heap, IF name \in DOMAIN reg THEN heap[reg[name]] ELSE << >>)]
DecoRead(reg, heap, name) ==
    IF name \in DOMAIN reg
    THEN [id |-> reg[name], heap |-> heap]
    ELSE [id |-> Len(heap) + 1, heap |-> Append(heap, <<>>)]

\* bases.append(klass), in place
DecoAppendFront(heap, id, klass) == [heap EXCEPT ![id] = <<klass>> \o @]
DecoAppend(heap, id, klass) == [heap EXCEPT ![id] = Append(@, klass)]

\* cls._registered[name] = bases
DecoWrite(reg, name, id) ==
    [k \in DOMAIN reg \cup {name} |-> IF k = name THEN id ELSE reg[k]]

\* cls._registered.get(str(name), [pix.model.PIXObject])
BuildBasesNoFallback(name) ==
    LET key == PyStr(StrOf(name))
    IN  IF key \in DOMAIN registered THEN lists[registered[key]] ELSE << >>
BuildBases(name) ==
    LET key == PyStr(StrOf(name))
    IN  IF key \in DOMAIN registered THEN lists[registered[key]] ELSE <<DefaultBase>>

\* Factory.build(name)
Build(name) == TypeNew(StrOf(name), BuildBases(name))

RegNames   == {PyStr("X"), PyStr("Y"), PyStr("5")}
BuildNames == RegNames \cup {PyInt(5), PyStr("Z")}

NoBuild == [arg |-> PyNone, out |-> Raise("none"), at |-> 0]

\* register(name)(klass), run to completion
Register(name, klass) ==
    /\ Len(regLog) < MaxRegs
    /\ LET r == DecoRead(registered, lists, name)
       IN  /\ lists' = DecoAppend(r.heap, r.id, klass)
           /\ registered' = DecoWrite(registered, name, r.id)
    /\ regLog' = Append(regLog, <<name, klass>>)
    /\ UNCHANGED <<built, walkVars, concVars>>

\* build(name)
CallBuild(name) ==
    /\ built' = [arg |-> name, out |-> Build(name), at |-> Len(regLog)]
    /\ UNCHANGED <<registered, lists, regLog, walkVars, concVars>>

-----------------------------------------------------------------------------
(* The walked data *)

Ref(p) == [t |-> "ref", path |-> p]          \* the very object at path p of `data`

Child(v, i) == IF IsDict(v) THEN v.items[i][2] ELSE v.elts[i]

RECURSIVE At(_, _)
At(v, p) == IF p = << >> THEN v ELSE At(Child(v, Head(p)), Tail(p))

Node(p) == At(data, p)

\* the walker itself, as `self`
Self == [t |-> "factory", session |-> session]

\* obj(self, data)
InstantiateWithCopy(cls, p) ==
    [t |-> "object", type |-> cls, args |-> <<Self, [t |-> "copy", path |-> p]>>]
Instantiate(cls, p) ==
    [t |-> "object", type |-> cls, args |-> <<Self, Ref(p)>>]

\* name = data.get('class'); if name: obj = self.build(name); obj(self, data)
ClassOf(p) == DictGet(Node(p), "class")

DiscriminatedStrOnly(p) == ClassOf(p).t = "str" /\ ClassOf(p).v # ""
Discriminated(p) == Truthy(ClassOf(p))

Promote(p) ==
    LET cls == Build(ClassOf(p))
    IN  IF IsRaise(cls) THEN cls ELSE Instantiate(cls, p)

-----------------------------------------------------------------------------
(* iter_contents *)

Indices(n) == [i \in 1..n |-> i]

\* for l in v: if isinstance(l, dict): yield l
InnerDicts(px) ==
    LET x   == Node(px)
        sel == SelectSeq(Indices(Len(x.elts)), LAMBDA j : IsDict(x.elts[j]))
    IN  [k \in 1..Len(sel) |-> Append(px, sel[k])]

\* what one entry of the mapping contributes
EntryYieldsDirectOnly(p, i) ==
    IF IsDict(Node(p).items[i][2]) THEN <<Append(p, i)>> ELSE << >>
EntryYields(p, i) ==
    LET x == Node(p).items[i][2]
    IN  IF IsDict(x) THEN <<Append(p, i)>>
        ELSE IF IsSeq(x) THEN InnerDicts(Append(p, i))
        ELSE << >>

RECURSIVE ContentsFrom(_, _)
ContentsFrom(p, i) ==
    IF i > Len(Node(p).items) THEN << >>
    ELSE EntryYields(p, i) \o ContentsFrom(p, i + 1)

\* list(iter_contents(data)): the mappings yielded, by identity, in order
IterContents(p) == ContentsFrom(p, 1)

-----------------------------------------------------------------------------
(* iter_children *)

\* a generator that raised yields nothing more
Chain(a, b) == IF a # << >> /\ IsRaise(a[Len(a)]) THEN a ELSE a \o b

\* if recursive:
DescendAlways(recursive) == TRUE
Descend(recursive) == recursive

\* the node's own object is yielded before the loop over its contents runs
YieldOrderPost(own, rest) == Chain(rest, own)
YieldOrder(own, rest) == Chain(own, rest)

RECURSIVE IterChildren(_, _)
RECURSIVE ChildrenOfEach(_, _)
\* for x in self.iter_contents(data): for obj in self.iter_children(x): yield obj
ChildrenOfEach(ps, i) ==
    IF i > Len(ps) THEN << >>
    ELSE Chain(IterChildren(ps[i], TRUE), ChildrenOfEach(ps, i + 1))

\* list(self.iter_children(data, recursive))
IterChildren(p, recursive) ==
    YieldOrder(IF Discriminated(p) THEN <<Promote(p)>> ELSE << >>,
               IF Descend(recursive) THEN ChildrenOfEach(IterContents(p), 1) ELSE << >>)

-----------------------------------------------------------------------------
(* objectfy *)

\* elif isinstance(data, (tuple, list, set)):
IsWalkedSeqNoTuple(v) == v.t \in {"list", "set"}
IsWalkedSeq(v) == v.t \in {"tuple", "list", "set"}

Range(s) == {s[i] : i \in 1..Len(s)}

\* results = [...]; tuple(results) for a tuple, set(results) for a set
RebuildAsList(kind, outs) == [t |-> "list", elts |-> outs]
Rebuild(kind, outs) ==
    CASE kind = "tuple" -> [t |-> "tuple", elts |-> outs]
      [] kind = "set"   -> [t |-> "set", members |-> Range(outs)]
      [] OTHER          -> [t |-> "list", elts |-> outs]

\* {k: self.objectfy(v) for k, v in data.items()}
RebuildDict(p, outs) ==
    [t |-> "dict",
     items |-> [i \in 1..Len(outs) |-> <<Node(p).items[i][1], outs[i]>>]]

RECURSIVE Objectfy(_)
RECURSIVE ObjectfyEach(_, _, _)
\* objectfy applied to the children i..n of the container at p, in order,
\* stopping at the first that raises
ObjectfyEach(p, n, i) ==
    IF i > n THEN [outs |-> << >>, calls |-> << >>, exc |-> FALSE]
    ELSE LET h == Objectfy(Append(p, i))
         IN  IF IsRaise(h.out)
             THEN [outs |-> << >>, calls |-> h.calls, exc |-> TRUE]
             ELSE LET r == ObjectfyEach(p, n, i + 1)
                  IN  [outs |-> <<h.out>> \o r.outs,
                       calls |-> h.calls \o r.calls,
                       exc |-> r.exc]

\* self.objectfy(data): what it returns, and the build calls it made (by node)
Objectfy(p) ==
    LET v == Node(p)
    IN  IF IsDict(v) THEN
            IF Discriminated(p)
            THEN [out |-> Promote(p), calls |-> <<p>>]
            ELSE LET r == ObjectfyEach(p, Len(v.items), 1)
                 IN  [out |-> IF r.exc THEN Raise("TypeError") ELSE RebuildDict(p, r.outs),
                      calls |-> r.calls]
        ELSE IF IsWalkedSeq(v) THEN
            LET r == ObjectfyEach(p, Len(v.elts), 1)
            IN  [out |-> IF r.exc THEN Raise("TypeError") ELSE Rebuild(v.t, r.outs),
                 calls |-> r.calls]
        ELSE [out |-> Ref(p), calls |-> << >>]

-----------------------------------------------------------------------------
(* The data the walker is given *)

ClassVals ==
    {PyStr("X"), PyStr(""), PyInt(5), PyInt(0), PyNone,
     PyList(<<PyStr("X")>>), PyList(<< >>)}

TaggedY == PyDict(<< <<"class", PyStr("Y")>> >>)

Leaves ==
    {PyStr("s"), PyInt(7),
     PyDict(<< >>), PyDict(<< <<"k", PyInt(7)>> >>),
     PySet(<<PyStr("s"), PyTuple(<<PyInt(7)>>)>>)}
    \cup {PyDict(<< <<"class", c>> >>) : c \in ClassVals}

Wrap(c) ==
    {PyDict(<< <<"a", c>> >>),
     PyDict(<< <<"class", PyStr("X")>>, <<"a", c>> >>),
     PyDict(<< <<"a", c>>, <<"class", PyInt(5)>> >>),
     PyDict(<< <<"class", PyStr("")>>, <<"b", TaggedY>>, <<"a", c>> >>),
     PyDict(<< <<"a", PyList(<<PyInt(7), c, TaggedY>>)>>, <<"b", PyStr("s")>> >>),
     PyList(<<c>>),
     PyTuple(<<TaggedY, c>>)}

RECURSIVE Level(_)
Level(d) == IF d = 0 THEN Leaves ELSE Leaves \cup UNION {Wrap(c) : c \in Level(d - 1)}

Data == Level(MaxDepth)

EmptyRegistry == << >>

\* the registry a serial run of the registrations in `log` leaves behind
RECURSIVE RegistryAfter(_)
RegistryAfter(log) ==
    IF log = << >> THEN [reg |-> EmptyRegistry, heap |-> << >>]
    ELSE LET prev == RegistryAfter(SubSeq(log, 1, Len(log) - 1))
             e    == log[Len(log)]
             r    == DecoRead(prev.reg, prev.heap, e[1])
         IN  [reg |-> DecoWrite(prev.reg, e[1], r.id),
              heap |-> DecoAppend(r.heap, r.id, e[2])]

InitRegistry(log) ==
    /\ registered = RegistryAfter(log).reg
    /\ lists = RegistryAfter(log).heap
    /\ regLog = log
    /\ built = NoBuild

Sessions == {[t |-> "session", id |-> "s1"], [t |-> "session", id |-> "s2"]}

InitWalker ==
    /\ session \in {x \in Sessions : x.id = "s1"}
    /\ data = PyNone
    /\ result = [op |-> "none"]
    /\ gens = << >>

InitThreads ==
    /\ pc = << >>
    /\ tname = << >>
    /\ bases = << >>
    /\ sawWrite = << >>

-----------------------------------------------------------------------------
(* Serial use of the registry *)

Init ==
    /\ InitRegistry(<< >>)
    /\ InitWalker
    /\ InitThreads

Next ==
    \/ \E name \in RegNames, klass \in Klasses : Register(name, klass)
    \/ \E name \in BuildNames : CallBuild(name)

Spec == Init /\ [][Next]_vars

-----------------------------------------------------------------------------
(* The walker: objectfy and iter_children over a payload *)

\* registrations made at start-up, before any data is walked; the classes
\* registered for one name combine into a type
WalkLogs ==
    {<< >>,
     << <<PyStr("X"), "B">>, <<PyStr("X"), "A">>, <<PyStr("5"), "C">> >>}

\* Factory(session), then a payload arrives
InitWalk ==
    /\ \E log \in WalkLogs : InitRegistry(log)
    /\ session \in Sessions
    /\ data \in Data
    /\ result = [op |-> "none"]
    /\ gens = << >>
    /\ InitThreads

CallObjectfy ==
    /\ result' = [op |-> "objectfy", out |-> Objectfy(<< >>).out,
                  calls |-> Objectfy(<< >>).calls]
    /\ UNCHANGED <<regVars, session, data, gens, concVars>>

CallIterChildren(recursive) ==
    /\ IsDict(data)
    /\ result' = [op |-> "iter_children", recursive |-> recursive,
                  yields |-> IterChildren(<< >>, recursive)]
    /\ UNCHANGED <<regVars, session, data, gens, concVars>>

NextWalk ==
    \/ CallObjectfy
    \/ \E recursive \in BOOLEAN : CallIterChildren(recursive)

SpecWalk == InitWalk /\ [][NextWalk]_vars

-----------------------------------------------------------------------------
(* iter_contents as a generator *)

GenIds == {"first", "second"}

NotCalled == [called |-> FALSE, yielded |-> << >>, stopped |-> FALSE]

InitGen ==
    /\ InitRegistry(<< >>)
    /\ session \in Sessions
    /\ data \in {d \in Data : IsDict(d)}
    /\ result = [op |-> "none"]
    /\ gens = [g \in GenIds |-> NotCalled]
    /\ InitThreads

\* g = Factory.iter_contents(data): nothing runs until next(g)
CallIterContents(g) ==
    /\ ~gens[g].called
    /\ gens' = [gens EXCEPT ![g].called = TRUE]
    /\ UNCHANGED <<regVars, session, data, result, concVars>>

\* next(g): run to the next yield, or to the end of the loops
GenNext(g) ==
    /\ gens[g].called
    /\ ~gens[g].stopped
    /\ LET all == IterContents(<< >>)
           n   == Len(gens[g].yielded)
       IN  gens' = IF n < Len(all)
                   THEN [gens EXCEPT ![g].yielded = Append(@, Ref(all[n + 1]))]
                   ELSE [gens EXCEPT ![g].stopped = TRUE]
    /\ UNCHANGED <<regVars, session, data, result, concVars>>

NextGen ==
    \/ \E g \in GenIds : CallIterContents(g)
    \/ \E g \in GenIds : GenNext(g)

SpecGen == InitGen /\ [][NextGen]_vars

-----------------------------------------------------------------------------
(* Two registrations running concurrently *)

MaxPre == 1       \* registrations completed before the two threads start

Threads   == {"t1", "t2"}
KlassOf   == [t \in Threads |-> IF t = "t1" THEN "A" ELSE "C"]
PreKlass  == "B"
ConcNames == {PyStr("X"), PyStr("Y")}

PreLogs == UNION {[1..n -> {<<name, PreKlass>> : name \in ConcNames}] : n \in 0..MaxPre}

InitConc ==
    /\ \E log \in PreLogs : InitRegistry(log)
    /\ InitWalker
    /\ pc = [t \in Threads |-> "read"]
    /\ tname \in [Threads -> ConcNames]
    /\ bases = [t \in Threads |-> 0]
    /\ sawWrite = [t \in Threads |-> FALSE]

\* bases = cls._registered.get(name, [])
ThreadRead(t) ==
    /\ pc[t] = "read"
    /\ LET r == DecoRead(registered, lists, tname[t])
       IN  /\ lists' = r.heap
           /\ bases' = [bases EXCEPT ![t] = r.id]
    /\ sawWrite' = [sawWrite EXCEPT ![t] = \E u \in Threads \ {t} : pc[u] = "done"]
    /\ pc' = [pc EXCEPT ![t] = "append"]
    /\ UNCHANGED <<registered, regLog, built, walkVars, tname>>

\* bases.append(klass)
ThreadAppend(t) ==
    /\ pc[t] = "append"
    /\ lists' = DecoAppend(lists, bases[t], KlassOf[t])
    /\ pc' = [pc EXCEPT ![t] = "write"]
    /\ UNCHANGED <<registered, regLog, built, walkVars, tname, bases, sawWrite>>

\* cls._registered[name] = bases; return klass
ThreadWrite(t) ==
    /\ pc[t] = "write"
    /\ registered' = DecoWrite(registered, tname[t], bases[t])
    /\ regLog' = Append(regLog, <<tname[t], KlassOf[t]>>)
    /\ pc' = [pc EXCEPT ![t] = "done"]
    /\ UNCHANGED <<lists, built, walkVars, tname, bases, sawWrite>>

NextConc ==
    \/ \E t \in Threads : ThreadRead(t)
    \/ \E t \in Threads : ThreadAppend(t)
    \/ \E t \in Threads : ThreadWrite(t)

SpecConc == InitConc /\ [][NextConc]_vars

-----------------------------------------------------------------------------
(* Properties of the registry *)

\* the classes registered under `name` by the first n registrations, in call order
KlassesFor(name, n) ==
    LET hits == SelectSeq(SubSeq(regLog, 1, n), LAMBDA e : e[1] = name)
    IN  [i \in 1..Len(hits) |-> hits[i][2]]

IsPrefix(a, b) == Len(a) <= Len(b) /\ SubSeq(b, 1, Len(a)) = a

\* C1 as stated: build(n) returns a type whose bases are exactly the classes
\* registered for n before the call, in registration order, a class registered
\* twice appearing twice.
C1_Original ==
    (built.arg \in RegNames /\ KlassesFor(built.arg, built.at) # << >>)
        => /\ built.out.t = "type"
           /\ built.out.bases = KlassesFor(built.arg, built.at)

C1_State ==
    /\ \A n \in RegNames :
          IF KlassesFor(n, Len(regLog)) = << >>
          THEN n \notin DOMAIN registered
          ELSE /\ n \in DOMAIN registered
               /\ lists[registered[n]] = KlassesFor(n, Len(regLog))
    /\ (built.arg \in RegNames /\ KlassesFor(built.arg, built.at) # << >>)
          => LET ks == KlassesFor(built.arg, built.at)
             IN  /\ HasDuplicate(ks) => built.out = Raise("TypeError")
                 /\ IsRaise(built.out) => HasDuplicate(ks) \/ MroConflict(ks)
                 /\ ~IsRaise(built.out) =>
                        /\ built.out.t = "type"
                        /\ built.out.bases = ks

C1_Step ==
    /\ \A n \in DOMAIN registered :
          /\ n \in DOMAIN registered'
          /\ IsPrefix(lists[registered[n]], lists'[registered'[n]])
    /\ built' # built => registered' = registered /\ lists' = lists

\* C1, amended: in a serial run the registry's list for n is exactly the
\* classes registered for n, in registration order, a class registered twice
\* appearing twice; registrations only append; build never changes the
\* registry; and build(n) either raises TypeError (always when a class was
\* registered twice for n) or returns a type whose bases are exactly that list.
C1_Amended == [](C1_State) /\ [][C1_Step]_vars

C1_Witness ==
    /\ built.arg = PyStr("X")
    /\ built.out.t = "type"
    /\ built.out.bases = <<"C", "A">>
    /\ built.at = 2
    /\ Len(regLog) = 3

\* C9: build(name) for a name with no registered class returns a type whose
\* only base is the default fallback type and whose display name is
\* str(name), whatever is registered under other names.
C9_UnregisteredFallsBack ==
    (built # NoBuild /\ KlassesFor(PyStr(StrOf(built.arg)), built.at) = << >>)
        => /\ built.out.t = "type"
           /\ built.out.bases = <<"PIXObject">>
           /\ built.arg.t = "str" => built.out.name = built.arg.v
           /\ built.arg = PyInt(5) => built.out.name = "5"

C9_Witness ==
    /\ built.arg = PyInt(5)
    /\ built.out.t = "type"
    /\ built.out.bases = <<"PIXObject">>
    /\ built.at >= 2

-----------------------------------------------------------------------------
(* Properties of concurrent registration *)

AllDone == \A t \in Threads : pc[t] = "done"

FinalList(t) == lists[registered[tname[t]]]
Kept(t) == \E i \in 1..Len(FinalList(t)) : FinalList(t)[i] = KlassOf[t]
PreRegistered(name) == \E i \in 1..Len(regLog) : regLog[i] = <<name, PreKlass>>
PreCount(name) == Len(SelectSeq(regLog, LAMBDA e : e = <<name, PreKlass>>))

\* C10: with the three steps of two registrations interleaved, a registration
\* is lost exactly when both register under the same name, the name had no
\* entry, and both read before either wrote back; otherwise both classes end
\* up in the registry, after whatever was registered before.
C10_LostExactlyWhen ==
    AllDone =>
        /\ (\E t \in Threads : ~Kept(t))
              <=> /\ \A t, u \in Threads : tname[t] = tname[u]
                  /\ \A t \in Threads : ~PreRegistered(tname[t])
                  /\ \A t \in Threads : ~sawWrite[t]
        /\ \A t \in Threads :
              /\ \A i \in 1..PreCount(tname[t]) : FinalList(t)[i] = PreKlass
              /\ Len(FinalList(t)) = PreCount(tname[t])
                    + Cardinality({u \in Threads : tname[u] = tname[t] /\ Kept(u)})

C10_Witness ==
    /\ AllDone
    /\ \E t \in Threads : ~Kept(t)

-----------------------------------------------------------------------------
(* The shape of the walked data, stated without the walker's operators *)

Arity(v) == IF IsDict(v) THEN Len(v.items) ELSE IF IsSeq(v) THEN Len(v.elts) ELSE 0

RECURSIVE PathsOf(_)
PathsOf(v) ==
    {<< >>} \cup UNION {{<<i>> \o q : q \in PathsOf(Child(v, i))} : i \in 1..Arity(v)}

DictPaths == {p \in PathsOf(data) : IsDict(Node(p))}

IsStrictPrefix(q, p) == Len(q) < Len(p) /\ SubSeq(p, 1, Len(q)) = q

RECURSIVE LexLess(_, _)
LexLess(p, q) ==
    IF p = << >> THEN q # << >>
    ELSE IF q = << >> THEN FALSE
    ELSE \/ p[1] < q[1]
         \/ p[1] = q[1] /\ LexLess(Tail(p), Tail(q))

HasClassKey(p) == \E i \in 1..Len(Node(p).items) : Node(p).items[i][1] = "class"
ClassValue(p) ==
    Node(p).items[CHOOSE i \in 1..Len(Node(p).items) : Node(p).items[i][1] = "class"][2]

\* "class" is present and a non-empty string
NonEmptyStringClass(p) ==
    HasClassKey(p) /\ ClassValue(p).t = "str" /\ ClassValue(p).v # ""

\* "class" is present and true under Python's truth test
TrueClass(p) ==
    /\ HasClassKey(p)
    /\ LET c == ClassValue(p)
       IN  \/ c.t = "str" /\ c.v # ""
           \/ c.t = "int" /\ c.n # 0
           \/ c.t = "dict" /\ c.items # << >>
           \/ c.t \in {"list", "tuple", "set"} /\ c.elts # << >>

\* the mappings a chain of iter_contents steps reaches from the root: a
\* mapping-valued entry, or a mapping directly inside a sequence-valued entry
RECURSIVE Reachable(_)
Reachable(p) ==
    \/ p = << >>
    \/ /\ Len(p) >= 1
       /\ IsDict(Node(SubSeq(p, 1, Len(p) - 1)))
       /\ Reachable(SubSeq(p, 1, Len(p) - 1))
    \/ /\ Len(p) >= 2
       /\ IsSeq(Node(SubSeq(p, 1, Len(p) - 1)))
       /\ IsDict(Node(SubSeq(p, 1, Len(p) - 2)))
       /\ Reachable(SubSeq(p, 1, Len(p) - 2))

\* the promoted objects inside a value objectfy returned
RECURSIVE ObjectsIn(_)
ObjectsIn(o) ==
    CASE o.t = "object" -> {o}
      [] o.t = "dict"   -> UNION {ObjectsIn(o.items[i][2]) : i \in 1..Len(o.items)}
      [] o.t \in {"list", "tuple"} -> UNION {ObjectsIn(o.elts[i]) : i \in 1..Len(o.elts)}
      [] o.t = "set"    -> UNION {ObjectsIn(m) : m \in o.members}
      [] OTHER          -> {}

\* every object the last call created
Created ==
    CASE result.op = "objectfy"      -> ObjectsIn(result.out)
      [] result.op = "iter_children" -> Range(result.yields)
      [] OTHER                       -> {}

WrappedBy(o) == o.args[2].path
Wrapped == {WrappedBy(o) : o \in Created}

\* the mappings the last call examined: objectfy walks everything outside the
\* mappings it promoted, iter_children the root and, when recursive, what
\* iter_contents steps reach
Examined ==
    CASE result.op = "objectfy" ->
            {p \in DictPaths : \A q \in Wrapped : ~IsStrictPrefix(q, p)}
      [] result.op = "iter_children" ->
            IF result.recursive THEN {p \in DictPaths : Reachable(p)} ELSE {<< >>}
      [] OTHER -> {}

-----------------------------------------------------------------------------
(* Properties of the walker *)

\* C2 as stated: an examined mapping is promoted iff it has a "class" whose
\* value is a non-empty string; a non-string value is treated as absent.
C2_Original == \A p \in Examined : (p \in Wrapped) <=> NonEmptyStringClass(p)

\* C2, amended: an examined mapping is promoted iff it has a "class" whose
\* value is true under Python's truth test (a non-empty string, a non-zero
\* number, a non-empty container); a missing, None, empty-string, zero or
\* empty-container value is treated as absent.
C2_PromotedIffTrueClass == \A p \in Examined : (p \in Wrapped) <=> TrueClass(p)

C2_Witness ==
    /\ result.op = "objectfy"
    /\ IsDict(data)
    /\ HasClassKey(<< >>)
    /\ ClassValue(<< >>) = PyInt(5)
    /\ result.out.t = "object"
    /\ result.out.type.name = "5"

\* C3 as stated: every promoted object is instantiated with (s, raw mapping),
\* s being the session the walker was constructed with.
C3_Original ==
    \A o \in Created : o.args[1] = session /\ o.args[2].t = "ref"

\* C3, amended: every promoted object is instantiated with (walker, raw
\* mapping): its first constructor argument is the walker itself, whose
\* session attribute is the session it was constructed with, and its second
\* is the very mapping node being promoted, not a copy.
C3_WalkerAndRawMapping ==
    \A o \in Created :
        /\ o.args[1].t = "factory"
        /\ o.args[1].session = session
        /\ o.args[2].t = "ref"
        /\ o.args[2].path \in DictPaths
        /\ o.type.name = StrOf(ClassValue(o.args[2].path))

C3_Witness ==
    /\ result.op = "iter_children"
    /\ Len(result.yields) >= 2
    /\ session.id = "s2"
    /\ result.yields[2].args[2] = Ref(<<2>>)

RECURSIVE ShapeKept(_, _)
ShapeKept(p, o) ==
    LET v == Node(p)
    IN  CASE v.t = "dict" ->
                IF TrueClass(p) THEN o.t = "object"
                ELSE /\ o.t = "dict"
                     /\ Len(o.items) = Len(v.items)
                     /\ \A i \in 1..Len(v.items) :
                           /\ o.items[i][1] = v.items[i][1]
                           /\ ShapeKept(Append(p, i), o.items[i][2])
          [] v.t \in {"list", "tuple"} ->
                /\ o.t = v.t
                /\ Len(o.elts) = Len(v.elts)
                /\ \A i \in 1..Len(v.elts) : ShapeKept(Append(p, i), o.elts[i])
          [] v.t = "set" ->
                /\ o.t = "set"
                /\ Cardinality(o.members) = Len(v.elts)
                /\ \A i \in 1..Len(v.elts) :
                       \E m \in o.members : ShapeKept(Append(p, i), m)
          [] OTHER -> o = Ref(p)

\* C4: outside promoted mappings objectfy keeps the shape: a mapping that is
\* not promoted becomes a new mapping with the same keys and objectfy applied
\* to each value, a list a list, a tuple a tuple, a set a set, sequences
\* keeping length and order, and any other value is returned as it is.
C4_ShapePreserved == result.op = "objectfy" => ShapeKept(<< >>, result.out)

C4_Witness ==
    /\ result.op = "objectfy"
    /\ data.t = "tuple"
    /\ result.out.t = "tuple"
    /\ Len(result.out.elts) = 2
    /\ result.out.elts[2].t = "set"
    /\ Cardinality(result.out.elts[2].members) = 2

\* the discriminated mappings with no discriminated mapping above them
Outermost ==
    {p \in DictPaths :
        /\ TrueClass(p)
        /\ \A q \in DictPaths : IsStrictPrefix(q, p) => ~TrueClass(q)}

\* C5: one objectfy call builds and instantiates exactly one object for each
\* outermost discriminated mapping, and nothing for a discriminated mapping
\* inside a promoted one, whose data is wrapped as it is.
C5_OnlyOutermost ==
    result.op = "objectfy" =>
        /\ Range(result.calls) = Outermost
        /\ Len(result.calls) = Cardinality(Outermost)
        /\ Wrapped = Outermost
        /\ Cardinality(Created) = Cardinality(Outermost)
        /\ \A o \in Created : o.args[2] = Ref(WrappedBy(o))

C5_Witness ==
    /\ result.op = "objectfy"
    /\ Len(result.calls) >= 2
    /\ \E p \in DictPaths : TrueClass(p) /\ p \notin Outermost
    /\ \E p \in Outermost : Len(p) >= 2

YieldedPaths == [i \in 1..Len(result.yields) |-> WrappedBy(result.yields[i])]

\* C6: a recursive iter_children yields, in depth-first pre-order, one object
\* for each discriminated mapping that chains of iter_contents steps reach
\* from the node, the node itself first, nested ones inside other
\* discriminated mappings included, each once and before its descendants.
C6_PreOrder ==
    (result.op = "iter_children" /\ result.recursive) =>
        /\ \A i \in 1..Len(result.yields) : result.yields[i].t = "object"
        /\ Range(YieldedPaths) = {p \in DictPaths : Reachable(p) /\ TrueClass(p)}
        /\ \A i, j \in 1..Len(result.yields) :
              i < j => LexLess(YieldedPaths[i], YieldedPaths[j])

C6_Witness ==
    /\ result.op = "iter_children"
    /\ result.recursive
    /\ Len(result.yields) >= 3
    /\ YieldedPaths[1] = << >>
    /\ IsStrictPrefix(YieldedPaths[2], YieldedPaths[3])

\* C7: a non-recursive iter_children never descends: it yields exactly one
\* object, wrapping the node, when the node is discriminated, and nothing
\* otherwise, whatever the node contains.
C7_TopLevelOnly ==
    (result.op = "iter_children" /\ ~result.recursive) =>
        IF TrueClass(<< >>)
        THEN /\ Len(result.yields) = 1
             /\ result.yields[1].t = "object"
             /\ result.yields[1].args[2] = Ref(<< >>)
        ELSE result.yields = << >>

C7_Witness ==
    /\ result.op = "iter_children"
    /\ ~result.recursive
    /\ Len(result.yields) = 1
    /\ \E p \in DictPaths : p # << >> /\ Reachable(p) /\ TrueClass(p)

\* the immediate mapping-valued children of the root
Immediate ==
    {p \in DictPaths :
        \/ Len(p) = 1
        \/ Len(p) = 2 /\ IsSeq(Node(<<p[1]>>))}

\* C8: iter_contents yields exactly the immediate mapping-valued children of
\* the mapping (entry values that are mappings, and mappings directly inside
\* list, tuple or set entries), in entry order and then sequence order, and
\* nothing deeper; every call yields that same sequence from the start.
C8_ImmediateMappings ==
    \A g \in DOMAIN gens :
        LET ys == gens[g].yielded
        IN  /\ \A i \in 1..Len(ys) : ys[i].t = "ref" /\ ys[i].path \in Immediate
            /\ \A i, j \in 1..Len(ys) : i < j => LexLess(ys[i].path, ys[j].path)
            /\ \A i \in 1..Len(ys) : \A q \in Immediate :
                   LexLess(q, ys[i].path) => \E j \in 1..i : ys[j].path = q
            /\ gens[g].stopped => {ys[i].path : i \in 1..Len(ys)} = Immediate

C8_Witness ==
    /\ \A g \in GenIds : gens[g].stopped /\ Len(gens[g].yielded) = 2
    /\ \E p \in DictPaths : Len(p) = 3 /\ p \notin Immediate

====
